---- MODULE Spec2Model ----
(***************************************************************************)
(* The Chat page of the PDF chat client (src/unnamed/part_001, lines       *)
(* 104-575) with the REST helpers of src/src/lib/api.ts, as a state        *)
(* machine.  One Chat instance is followed from its first render to its    *)
(* unmount.  A step is one run of the event loop: a user event (navigate,  *)
(* send, leave), or the continuation of one awaited call.  A navigation    *)
(* step contains the re-render and the effect cleanups and effect runs     *)
(* React performs for the dependencies that changed.                       *)
(***************************************************************************)
EXTENDS Integers, Sequences, FiniteSets, TLC

VARIABLES
    mounted,          \* the Chat instance is mounted
    paramChatId,      \* useParams().chatId of the current location
    searchPdf,        \* URLSearchParams(location.search).get("pdf")
    messages,         \* useState<Message[]>
    isLoadingHistory, \* useState<boolean>
    historyError,     \* useState<string>
    pdfUrl,           \* useState<string>
    isLoadingPdf,     \* useState<boolean>
    histEffects,      \* the runs of the history effect, oldest first
    pdfEffects,       \* the runs of the PDF effect, oldest first
    liveUrls,         \* object URLs created and not yet revoked
    urlCount,         \* object URLs created so far
    pdfToasts,        \* "PDF load failed" toasts raised so far
    asks,             \* the questions sent, oldest first, with their progress
    now,              \* Date.now()
    navCount          \* user navigations so far

vars == <<mounted, paramChatId, searchPdf, messages, isLoadingHistory,
          historyError, pdfUrl, isLoadingPdf, histEffects, pdfEffects,
          liveUrls, urlCount, pdfToasts, asks, now, navCount>>

-----------------------------------------------------------------------------
(* Bounds of the model. *)

\* The user events of one run: navigations and questions sent, together.
MaxUserEvents == 2

\* The clock ticks of one run.
MaxTicks == 1

-----------------------------------------------------------------------------
(* Values. *)

\* JavaScript's undefined / null, as a value no input string equals.
Undefined == "<undefined>"

\* The locations /chat/{route}?pdf={query} the page is opened at and taken
\* to: no chat id and no document; a canonical chat id with a document it was
\* not derived from; the same chat id without a document; a chat id that is
\* not canonical, with a second document.
Locations ==
    { <<Undefined, Undefined>>, <<"chat_s1", "d1">>, <<"chat_s1", Undefined>>,
      <<"srv1", "d2">> }

\* The route parameters and pdf query parameters identifier resolution is
\* tried on, in every combination.
RouteInputs ==
    {Undefined, "", "chat_", "chat_abc", "chat_doc1", "chat", "abc"}

QueryInputs == {Undefined, "", "doc1", "abc", "chat_abc"}

\* The texts typed into the input box.
Inputs == {"", " ", "hi"}

\* The answers the backend gives (res.answer), the empty one included.
Answers == {"", "A"}

\* The messages of the errors askQuestion throws (api.ts:35, fetch itself).
AskErrors == {"Ask failed", "Failed to fetch"}

\* The messages of the errors getChatHistory throws (api.ts:136).
HistoryErrors == {"Failed to fetch chat history"}

\* The messages of the errors getPdf throws (api.ts:51).
PdfErrors == {"Get PDF failed"}

\* JavaScript truthiness of an optional string.
Truthy(s) == s # Undefined /\ s # ""

\* a || b on optional strings.
OrElse(a, b) == IF Truthy(a) THEN a ELSE b

\* String.prototype.startsWith.
StartsWith(s, p) == Len(s) >= Len(p) /\ SubSeq(s, 1, Len(p)) = p

\* Number.prototype.toString of a natural number (decimal).
RECURSIVE NumToString(_)
NumToString(n) ==
    IF n < 10 THEN SubSeq("0123456789", n + 1, n + 1)
    ELSE NumToString(n \div 10) \o SubSeq("0123456789", (n % 10) + 1, (n % 10) + 1)

\* String.prototype.trim, for the blank character " ".
RECURSIVE Trim(_)
Trim(s) ==
    IF s = "" THEN ""
    ELSE IF SubSeq(s, 1, 1) = " " THEN Trim(SubSeq(s, 2, Len(s)))
    ELSE IF SubSeq(s, Len(s), Len(s)) = " " THEN Trim(SubSeq(s, 1, Len(s) - 1))
    ELSE s

Last(s) == s[Len(s)]

-----------------------------------------------------------------------------
(* Identifier resolution (part_001:111-119). *)

\* const pdfId = new URLSearchParams(location.search).get("pdf") || "";
PdfIdOf(query) == OrElse(query, "")

\* The resolution with its two rules in the other order: the document key
\* wins over a canonical route parameter.
EffectiveChatId_DocFirst(routeParam, docKey) ==
    IF Truthy(docKey) THEN "chat_" \o docKey
    ELSE IF Truthy(routeParam) /\ StartsWith(routeParam, "chat_") THEN routeParam
    ELSE Undefined

\* A resolution that takes any route parameter as the chat id.
EffectiveChatId_PassThrough(routeParam, docKey) ==
    IF Truthy(routeParam) THEN routeParam
    ELSE IF Truthy(docKey) THEN "chat_" \o docKey
    ELSE Undefined

\* The IIFE computing effectiveChatId from the route parameter and pdfId.
EffectiveChatId(routeParam, docKey) ==
    IF Truthy(routeParam) /\ StartsWith(routeParam, "chat_") THEN routeParam
    ELSE IF Truthy(docKey) THEN "chat_" \o docKey
    ELSE Undefined

pdfId == PdfIdOf(searchPdf)

effectiveChatId == EffectiveChatId(paramChatId, pdfId)

-----------------------------------------------------------------------------
(* Messages. *)

Message(id, role, content, timestamp) ==
    [id |-> id, role |-> role, content |-> content, timestamp |-> timestamp]

\* The message shown when there is no chat id (part_001:184-192).
NoChatWelcome ==
    Message("welcome", "assistant",
            "Hello! Upload a PDF or open a chat to start. Once you open a chat, ask me anything about the document.",
            "Just now")

\* The message shown for a history without interactions (part_001:221-227).
EmptyHistoryWelcome ==
    Message("welcome", "assistant",
            "No previous interactions found. Ask a question to get started!",
            "Just now")

\* The message shown when the history load failed (part_001:234-240).
HistoryFailedWelcome ==
    Message("welcome", "assistant",
            "Hello! I'm ready to help you understand this PDF. Ask me any questions!",
            "Just now")

\* The i-th interaction of a chat_history response (api.ts:109-114).
Interaction(i) ==
    [question |-> "q" \o NumToString(i), answer |-> "a" \o NumToString(i),
     asked_at |-> "t" \o NumToString(i)]

\* The interaction lists the backend returns: no interaction, two.
HistoryResponses == { <<>>, <<Interaction(1), Interaction(2)>> }

\* An expansion that pushes the answer before the question.
RECURSIVE HistoryMessages_AnswerFirst(_, _)
HistoryMessages_AnswerFirst(interactions, idx) ==
    IF idx >= Len(interactions) THEN <<>>
    ELSE LET it == interactions[idx + 1] IN
         << Message(NumToString(idx) \o "-a", "assistant", it.answer, it.asked_at),
            Message(NumToString(idx) \o "-q", "user", it.question, it.asked_at) >>
         \o HistoryMessages_AnswerFirst(interactions, idx + 1)

\* data.interactions.forEach((it, idx) => push q, push a)  (part_001:203-218)
RECURSIVE HistoryMessages(_, _)
HistoryMessages(interactions, idx) ==
    IF idx >= Len(interactions) THEN <<>>
    ELSE LET it == interactions[idx + 1] IN
         << Message(NumToString(idx) \o "-q", "user", it.question, it.asked_at),
            Message(NumToString(idx) \o "-a", "assistant", it.answer, it.asked_at) >>
         \o HistoryMessages(interactions, idx + 1)

-----------------------------------------------------------------------------
(* The history effect (part_001:178-253). *)

\* A loadHistory that calls the backend whatever the chat id is.
HistoryEffectStart_AlwaysFetch(key, msgs, loading, error) ==
    [msgs |-> msgs, loading |-> TRUE, error |-> "",
     run |-> [key |-> key, isMounted |-> TRUE, status |-> "pending",
                   data |-> <<>>]]

\* The body of the effect up to its await: loadHistory() called with the
\* effectiveChatId of the render (key), on the state <<msgs, loading, error>>.
\* Yields the new state and the record of this run of the effect: its
\* effectiveChatId, its isMounted, how far it is, and data.interactions once
\* the run has used it.
HistoryEffectStart(key, msgs, loading, error) ==
    IF ~Truthy(key)
    THEN [msgs |-> <<NoChatWelcome>>, loading |-> loading, error |-> error,
          run |-> [key |-> key, isMounted |-> TRUE, status |-> "skipped",
                   data |-> <<>>]]
    ELSE [msgs |-> msgs, loading |-> TRUE, error |-> "",
          run |-> [key |-> key, isMounted |-> TRUE, status |-> "pending",
                   data |-> <<>>]]

\* The cleanup of the effect: isMounted = false in the closure of the run
\* (only the latest run can still have it true).
HistoryCleanup(runs) ==
    [i \in 1..Len(runs) |-> [runs[i] EXCEPT !.isMounted = FALSE]]

\* loadHistory without its isMounted checks.
HistoryStale_Never(run) == FALSE

\* if (!isMounted) return;  and  if (isMounted) ...  in loadHistory.
HistoryStale(run) == ~run.isMounted

\* A success path that shows the history as it is, empty or not.
HistoryResolveOk_NoWelcome(i, interactions) ==
    /\ i \in 1..Len(histEffects)
    /\ histEffects[i].status = "pending"
    /\ IF HistoryStale(histEffects[i])
       THEN /\ histEffects' = [histEffects EXCEPT ![i].status = "discarded"]
            /\ UNCHANGED <<messages, isLoadingHistory, historyError>>
       ELSE /\ histEffects' = [histEffects EXCEPT ![i].status = "loaded",
                                                  ![i].data = interactions]
            /\ messages' = HistoryMessages(interactions, 0)
            /\ isLoadingHistory' = FALSE
            /\ UNCHANGED historyError
    /\ UNCHANGED <<mounted, paramChatId, searchPdf, pdfUrl, isLoadingPdf,
                   pdfEffects, liveUrls, urlCount, pdfToasts, asks, now,
                   navCount>>

\* getChatHistory resolved for run i: the code after the await in the try
\* block and the finally block.
HistoryResolveOk(i, interactions) ==
    /\ i \in 1..Len(histEffects)
    /\ histEffects[i].status = "pending"
    /\ IF HistoryStale(histEffects[i])
       THEN /\ histEffects' = [histEffects EXCEPT ![i].status = "discarded"]
            /\ UNCHANGED <<messages, isLoadingHistory, historyError>>
       ELSE /\ histEffects' = [histEffects EXCEPT ![i].status = "loaded",
                                                  ![i].data = interactions]
            /\ messages' =
                 (LET historyMessages == HistoryMessages(interactions, 0)
                  IN  IF Len(historyMessages) # 0 THEN historyMessages
                      ELSE <<EmptyHistoryWelcome>>)
            /\ isLoadingHistory' = FALSE
            /\ UNCHANGED historyError
    /\ UNCHANGED <<mounted, paramChatId, searchPdf, pdfUrl, isLoadingPdf,
                   pdfEffects, liveUrls, urlCount, pdfToasts, asks, now,
                   navCount>>

\* A catch block that records nothing and no finally block.
HistoryResolveFail_Swallow(i, err) ==
    /\ i \in 1..Len(histEffects)
    /\ histEffects[i].status = "pending"
    /\ histEffects' = [histEffects EXCEPT ![i].status =
                          IF HistoryStale(histEffects[i]) THEN "discarded"
                          ELSE "failed"]
    /\ UNCHANGED <<mounted, paramChatId, searchPdf, messages, isLoadingHistory,
                   historyError, pdfUrl, isLoadingPdf, pdfEffects, liveUrls,
                   urlCount, pdfToasts, asks, now, navCount>>

\* A finally block that ends the loading state of the whole page.
HistoryResolveFail_PageLoading(i, err) ==
    /\ i \in 1..Len(histEffects)
    /\ histEffects[i].status = "pending"
    /\ IF HistoryStale(histEffects[i])
       THEN /\ histEffects' = [histEffects EXCEPT ![i].status = "discarded"]
            /\ UNCHANGED <<messages, isLoadingHistory, historyError,
                           isLoadingPdf>>
       ELSE /\ histEffects' = [histEffects EXCEPT ![i].status = "failed"]
            /\ historyError' = OrElse(err, "Failed to load chat history")
            /\ messages' = <<HistoryFailedWelcome>>
            /\ isLoadingHistory' = FALSE
            /\ isLoadingPdf' = FALSE
    /\ UNCHANGED <<mounted, paramChatId, searchPdf, pdfUrl, pdfEffects,
                   liveUrls, urlCount, pdfToasts, asks, now, navCount>>

\* getChatHistory rejected for run i: the catch block and the finally block.
HistoryResolveFail(i, err) ==
    /\ i \in 1..Len(histEffects)
    /\ histEffects[i].status = "pending"
    /\ IF HistoryStale(histEffects[i])
       THEN /\ histEffects' = [histEffects EXCEPT ![i].status = "discarded"]
            /\ UNCHANGED <<messages, isLoadingHistory, historyError>>
       ELSE /\ histEffects' = [histEffects EXCEPT ![i].status = "failed"]
            /\ historyError' = OrElse(err, "Failed to load chat history")
            /\ messages' = <<HistoryFailedWelcome>>
            /\ isLoadingHistory' = FALSE
    /\ UNCHANGED <<mounted, paramChatId, searchPdf, pdfUrl, isLoadingPdf,
                   pdfEffects, liveUrls, urlCount, pdfToasts, asks, now,
                   navCount>>

-----------------------------------------------------------------------------
(* The PDF effect (part_001:258-294). *)

\* The body of the effect up to its await: loadPdf() called with the pdfId of
\* the render (docKey).  Yields the new isLoadingPdf and the record of the run.
PdfEffectStart(docKey, loading) ==
    IF ~Truthy(docKey)
    THEN [loading |-> loading,
          run |-> [pdfId |-> docKey, isMounted |-> TRUE, currentUrl |-> "",
                   status |-> "skipped"]]
    ELSE [loading |-> TRUE,
          run |-> [pdfId |-> docKey, isMounted |-> TRUE, currentUrl |-> "",
                   status |-> "pending"]]

\* A cleanup that leaves isMounted as it is.
PdfCleanup_Keep(runs) == runs

\* The cleanup of the effect, on the closures: isMounted = false.
PdfCleanup(runs) ==
    [i \in 1..Len(runs) |-> [runs[i] EXCEPT !.isMounted = FALSE]]

\* A cleanup that revokes nothing.
PdfRevoke_Never(runs, urls) == urls

\* The cleanup of the effect, on the object URLs:
\* if (currentUrl) URL.revokeObjectURL(currentUrl), for the run being cleaned.
PdfRevoke(runs, urls) ==
    IF Len(runs) > 0 /\ Last(runs).isMounted /\ Last(runs).currentUrl # ""
    THEN urls \ {Last(runs).currentUrl}
    ELSE urls

\* URL.createObjectURL: a URL no earlier call returned.
CreateObjectURL(n) == "blob:" \o NumToString(n)

\* loadPdf without its isMounted check.
PdfStale_Never(run) == FALSE

\* if (!isMounted) return;  in loadPdf.
PdfStale(run) == ~run.isMounted

\* getPdf resolved for run i: the rest of the try block and the finally block.
PdfResolveOk(i) ==
    /\ i \in 1..Len(pdfEffects)
    /\ pdfEffects[i].status = "pending"
    /\ IF PdfStale(pdfEffects[i])
       THEN /\ pdfEffects' = [pdfEffects EXCEPT ![i].status = "discarded"]
            /\ UNCHANGED <<pdfUrl, isLoadingPdf, liveUrls, urlCount>>
       ELSE LET url == CreateObjectURL(urlCount + 1) IN
            /\ urlCount' = urlCount + 1
            /\ liveUrls' = liveUrls \cup {url}
            /\ pdfEffects' = [pdfEffects EXCEPT ![i].status = "installed",
                                                ![i].currentUrl = url]
            /\ pdfUrl' = url
            /\ isLoadingPdf' = FALSE
    /\ UNCHANGED <<mounted, paramChatId, searchPdf, messages, isLoadingHistory,
                   historyError, histEffects, pdfToasts, asks, now, navCount>>

\* A catch block that only logs, and no finally block.
PdfResolveFail_Silent(i, err) ==
    /\ i \in 1..Len(pdfEffects)
    /\ pdfEffects[i].status = "pending"
    /\ pdfEffects' = [pdfEffects EXCEPT ![i].status = "failed"]
    /\ UNCHANGED <<mounted, paramChatId, searchPdf, messages, isLoadingHistory,
                   historyError, pdfUrl, isLoadingPdf, histEffects, liveUrls,
                   urlCount, pdfToasts, asks, now, navCount>>

\* getPdf rejected for run i: the catch block (the toast is raised whatever
\* isMounted is) and the finally block.
PdfResolveFail(i, err) ==
    /\ i \in 1..Len(pdfEffects)
    /\ pdfEffects[i].status = "pending"
    /\ pdfToasts' = pdfToasts + 1
    /\ pdfEffects' = [pdfEffects EXCEPT ![i].status = "failed"]
    /\ isLoadingPdf' = IF pdfEffects[i].isMounted THEN FALSE ELSE isLoadingPdf
    /\ UNCHANGED <<mounted, paramChatId, searchPdf, messages, isLoadingHistory,
                   historyError, pdfUrl, histEffects, liveUrls, urlCount, asks,
                   now, navCount>>

-----------------------------------------------------------------------------
(* Rendering a location. *)

\* The Chat instance renders the location <<route, query>> with the message
\* log msgs: React cleans up and reruns the history effect when
\* effectiveChatId changed and the PDF effect when pdfId changed.
Render(route, query, msgs) ==
    LET newPdfId == PdfIdOf(query)
        newKey == EffectiveChatId(route, newPdfId)
        h == HistoryEffectStart(newKey, msgs, isLoadingHistory, historyError)
        p == PdfEffectStart(newPdfId, isLoadingPdf)
    IN  /\ paramChatId' = route
        /\ searchPdf' = query
        /\ IF newKey # effectiveChatId
           THEN /\ histEffects' = Append(HistoryCleanup(histEffects), h.run)
                /\ messages' = h.msgs
                /\ isLoadingHistory' = h.loading
                /\ historyError' = h.error
           ELSE /\ messages' = msgs
                /\ UNCHANGED <<histEffects, isLoadingHistory, historyError>>
        /\ IF newPdfId # pdfId
           THEN /\ pdfEffects' = Append(PdfCleanup(pdfEffects), p.run)
                /\ liveUrls' = PdfRevoke(pdfEffects, liveUrls)
                /\ isLoadingPdf' = p.loading
           ELSE UNCHANGED <<pdfEffects, liveUrls, isLoadingPdf>>

\* The user opens another chat location while the page is shown.
Navigate(route, query) ==
    /\ mounted
    /\ navCount + Len(asks) < MaxUserEvents
    /\ <<route, query>> # <<paramChatId, searchPdf>>
    /\ navCount' = navCount + 1
    /\ Render(route, query, messages)
    /\ UNCHANGED <<mounted, pdfUrl, urlCount, pdfToasts, asks, now>>

\* The user leaves the page: both effects are cleaned up.
Unmount ==
    /\ mounted
    /\ mounted' = FALSE
    /\ histEffects' = HistoryCleanup(histEffects)
    /\ pdfEffects' = PdfCleanup(pdfEffects)
    /\ liveUrls' = PdfRevoke(pdfEffects, liveUrls)
    /\ UNCHANGED <<paramChatId, searchPdf, messages, isLoadingHistory,
                   historyError, pdfUrl, isLoadingPdf, urlCount, pdfToasts,
                   asks, now, navCount>>

\* Time passes.
Tick ==
    /\ now < MaxTicks
    /\ now' = now + 1
    /\ UNCHANGED <<mounted, paramChatId, searchPdf, messages, isLoadingHistory,
                   historyError, pdfUrl, isLoadingPdf, histEffects, pdfEffects,
                   liveUrls, urlCount, pdfToasts, asks, navCount>>

-----------------------------------------------------------------------------
(* Sending a question (part_001:299-410). *)

NoToast == [title |-> "", description |-> ""]

Toast(title, description) == [title |-> title, description |-> description]

\* The toast of lines 318-322.
MissingChatIdToast ==
    Toast("Missing chat id", "Cannot send question because chat id is missing.")

\* A failure that raises no toast.
ServerErrorToast_Silent(err) == NoToast

\* The toast of lines 358-362 and 377-381, for an error of message err.
ServerErrorToast(err) ==
    Toast("Server error", OrElse(err, "Failed to get answer from server"))

\* The reply appended for res.answer = answer, k being the offset of its id.
Reply(answer, k) ==
    Message(NumToString(now + k), "assistant", OrElse(answer, "(no answer)"),
            "Just now")

\* The placeholder appended for a failed question, k the offset of its id.
Placeholder(k) ==
    Message(NumToString(now + k), "assistant",
            "Failed to get answer from server.", "Just now")

\* No navigate() call made.
NoNav == <<>>

\* A setMessages that puts the message in the place of the last one.
AppendMessage_Overwrite(msg) ==
    IF mounted THEN Append(SubSeq(messages, 1, Len(messages) - 1), msg)
    ELSE messages

\* setMessages((m) => [...m, msg]): React drops the update of an unmounted
\* component.
AppendMessage(msg) == IF mounted THEN Append(messages, msg) ELSE messages

\* A fallback chat id without the canonical prefix.
FallbackChat_NoPrefix(docKey) == IF Truthy(docKey) THEN docKey ELSE Undefined

\* const fallbackChat = pdfId ? `chat_${pdfId}` : undefined;  with the pdfId
\* the handler captured.
FallbackChat(docKey) == IF Truthy(docKey) THEN "chat_" \o docKey ELSE Undefined

\* The guard without its comparison with the primary chat id.
FallbackAllowed_NoCompare(fallbackChat, chatId) == Truthy(fallbackChat)

\* if (fallbackChat && fallbackChat !== effectiveChatId)
FallbackAllowed(fallbackChat, chatId) ==
    Truthy(fallbackChat) /\ fallbackChat # chatId

\* A navigate() that stays on the chat id the question was first sent to.
NavigateTarget_Primary(fallbackChat, chatId, docKey) == <<chatId, docKey>>

\* navigate(`/chat/${fallbackChat}?pdf=${pdfId}`, { replace: true }): the
\* location it asks the router for.
NavigateTarget(fallbackChat, chatId, docKey) == <<fallbackChat, docKey>>

\* An async block that sends the question to the chat id derived from the
\* document when there is one.
NewAsk_DocKey(input, chatId, docKey) ==
    IF ~Truthy(chatId)
    THEN [content |-> input, chatId |-> chatId, pdfId |-> docKey,
          stage |-> "nosession", calls |-> <<>>, errors |-> <<>>,
          toast |-> MissingChatIdToast, appended |-> <<>>, navTo |-> <<>>,
          run |-> Len(histEffects)]
    ELSE [content |-> input, chatId |-> chatId, pdfId |-> docKey,
          stage |-> "primary",
          calls |-> <<IF Truthy(docKey) THEN "chat_" \o docKey ELSE chatId>>,
          errors |-> <<>>, toast |-> NoToast, appended |-> <<>>,
          navTo |-> <<>>, run |-> Len(histEffects)]

\* The async block without its chat id check.
NewAsk_NoCheck(input, chatId, docKey) ==
    [content |-> input, chatId |-> chatId, pdfId |-> docKey,
     stage |-> "primary", calls |-> <<chatId>>, errors |-> <<>>,
     toast |-> NoToast, appended |-> <<>>, navTo |-> NoNav,
     run |-> Len(histEffects)]

\* The async block of handleSend up to its first network call, for the
\* effectiveChatId (chatId) and pdfId (docKey) the handler captured: the chat
\* id check and the primary askQuestion.  The record of the question holds
\* what the handler captured and what it did so far: the chat ids of its
\* ask_question calls, the messages of the errors they failed with, its
\* toast, the assistant messages it appended and its navigate() call; run is
\* the run of the history effect that belongs to the render of the handler.
NewAsk(input, chatId, docKey) ==
    IF ~Truthy(chatId)
    THEN [content |-> input, chatId |-> chatId, pdfId |-> docKey,
          stage |-> "nosession", calls |-> <<>>, errors |-> <<>>,
          toast |-> MissingChatIdToast, appended |-> <<>>, navTo |-> NoNav,
          run |-> Len(histEffects)]
    ELSE [content |-> input, chatId |-> chatId, pdfId |-> docKey,
          stage |-> "primary", calls |-> <<chatId>>, errors |-> <<>>,
          toast |-> NoToast, appended |-> <<>>, navTo |-> NoNav,
          run |-> Len(histEffects)]

\* A handleSend that starts the question without appending the user message.
Send_NotOptimistic(input) ==
    /\ mounted
    /\ navCount + Len(asks) < MaxUserEvents
    /\ IF Trim(input) = ""
       THEN UNCHANGED asks
       ELSE asks' = Append(asks, NewAsk(input, effectiveChatId, pdfId))
    /\ UNCHANGED <<mounted, paramChatId, searchPdf, messages, isLoadingHistory,
                   historyError, pdfUrl, isLoadingPdf, histEffects, pdfEffects,
                   liveUrls, urlCount, pdfToasts, now, navCount>>

\* handleSend up to the first network call: the input check, the optimistic
\* append, and the async block started with the effectiveChatId and pdfId of
\* the render the handler belongs to.  (The dynamic import of "@/lib/api", a
\* module the static import of line 95 has already loaded, is not a step of
\* its own: what follows it reads only values the handler captured.)
Send(input) ==
    /\ mounted
    /\ navCount + Len(asks) < MaxUserEvents
    /\ IF Trim(input) = ""
       THEN UNCHANGED <<messages, asks>>
       ELSE /\ messages' = Append(messages,
                   Message(NumToString(now), "user", input, "Just now"))
            /\ asks' = Append(asks, NewAsk(input, effectiveChatId, pdfId))
    /\ UNCHANGED <<mounted, paramChatId, searchPdf, isLoadingHistory,
                   historyError, pdfUrl, isLoadingPdf, histEffects, pdfEffects,
                   liveUrls, urlCount, pdfToasts, now, navCount>>

\* The primary askQuestion resolved with res.answer = answer.
AskPrimaryOk(q, answer) ==
    /\ q \in 1..Len(asks)
    /\ asks[q].stage = "primary"
    /\ messages' = AppendMessage(Reply(answer, 1))
    /\ asks' = [asks EXCEPT ![q].stage = "answered",
                            ![q].appended = Append(@, Reply(answer, 1))]
    /\ UNCHANGED <<mounted, paramChatId, searchPdf, isLoadingHistory,
                   historyError, pdfUrl, isLoadingPdf, histEffects, pdfEffects,
                   liveUrls, urlCount, pdfToasts, now, navCount>>

\* A catch block that raises the toast and appends nothing when there is no
\* fallback.
AskPrimaryFail_Drop(q, err) ==
    /\ q \in 1..Len(asks)
    /\ asks[q].stage = "primary"
    /\ LET fallbackChat == FallbackChat(asks[q].pdfId) IN
       IF FallbackAllowed(fallbackChat, asks[q].chatId)
       THEN asks' = [asks EXCEPT ![q].stage = "fallback",
                                 ![q].errors = Append(@, err),
                                 ![q].calls = Append(@, fallbackChat)]
       ELSE asks' = [asks EXCEPT ![q].stage = "failed",
                                 ![q].errors = Append(@, err),
                                 ![q].toast = ServerErrorToast(err)]
    /\ UNCHANGED <<mounted, paramChatId, searchPdf, messages, isLoadingHistory,
                   historyError, pdfUrl, isLoadingPdf, histEffects, pdfEffects,
                   liveUrls, urlCount, pdfToasts, now, navCount>>

\* The primary askQuestion rejected with an error of message err: the catch
\* block, which either sends the question to the fallback chat (lines
\* 341-345) or raises the toast and appends the placeholder (lines 376-390).
AskPrimaryFail(q, err) ==
    /\ q \in 1..Len(asks)
    /\ asks[q].stage = "primary"
    /\ LET fallbackChat == FallbackChat(asks[q].pdfId) IN
       IF FallbackAllowed(fallbackChat, asks[q].chatId)
       THEN /\ asks' = [asks EXCEPT ![q].stage = "fallback",
                                    ![q].errors = Append(@, err),
                                    ![q].calls = Append(@, fallbackChat)]
            /\ UNCHANGED messages
       ELSE /\ messages' = AppendMessage(Placeholder(4))
            /\ asks' = [asks EXCEPT ![q].stage = "failed",
                                    ![q].errors = Append(@, err),
                                    ![q].toast = ServerErrorToast(err),
                                    ![q].appended = Append(@, Placeholder(4))]
    /\ UNCHANGED <<mounted, paramChatId, searchPdf, isLoadingHistory,
                   historyError, pdfUrl, isLoadingPdf, histEffects, pdfEffects,
                   liveUrls, urlCount, pdfToasts, now, navCount>>

\* The fallback askQ resolved: the reply is appended and the router is sent
\* to the fallback chat.  A mounted Chat renders the new location; after the
\* unmount only the router's location changes.
AskFallbackOk(q, answer) ==
    /\ q \in 1..Len(asks)
    /\ asks[q].stage = "fallback"
    /\ LET target == NavigateTarget(FallbackChat(asks[q].pdfId),
                                    asks[q].chatId, asks[q].pdfId)
       IN  /\ asks' = [asks EXCEPT ![q].stage = "migrated",
                                   ![q].appended = Append(@, Reply(answer, 2)),
                                   ![q].navTo = target]
           /\ IF mounted
              THEN Render(target[1], target[2],
                          Append(messages, Reply(answer, 2)))
              ELSE /\ paramChatId' = target[1]
                   /\ searchPdf' = target[2]
                   /\ UNCHANGED <<messages, isLoadingHistory, historyError,
                                  histEffects, pdfEffects, liveUrls,
                                  isLoadingPdf>>
    /\ UNCHANGED <<mounted, pdfUrl, urlCount, pdfToasts, now, navCount>>

\* A fallback failure that sends the question to the primary chat once more.
AskFallbackFail_Retry(q, err2) ==
    /\ q \in 1..Len(asks)
    /\ asks[q].stage = "fallback"
    /\ asks' = [asks EXCEPT ![q].stage = "primary",
                            ![q].errors = Append(@, err2),
                            ![q].calls = Append(@, asks[q].chatId)]
    /\ Len(asks[q].calls) < 4
    /\ UNCHANGED <<mounted, paramChatId, searchPdf, messages, isLoadingHistory,
                   historyError, pdfUrl, isLoadingPdf, histEffects, pdfEffects,
                   liveUrls, urlCount, pdfToasts, now, navCount>>

\* The fallback askQ rejected with an error of message err2.
AskFallbackFail(q, err2) ==
    /\ q \in 1..Len(asks)
    /\ asks[q].stage = "fallback"
    /\ messages' = AppendMessage(Placeholder(3))
    /\ asks' = [asks EXCEPT ![q].stage = "failed",
                            ![q].errors = Append(@, err2),
                            ![q].toast = ServerErrorToast(err2),
                            ![q].appended = Append(@, Placeholder(3))]
    /\ UNCHANGED <<mounted, paramChatId, searchPdf, isLoadingHistory,
                   historyError, pdfUrl, isLoadingPdf, histEffects, pdfEffects,
                   liveUrls, urlCount, pdfToasts, now, navCount>>

-----------------------------------------------------------------------------
(* The specification. *)

\* The state after the first render and the first run of both effects, for
\* the page opened at /chat/{route}?pdf={query}.
InitAt(route, query) ==
    LET key == EffectiveChatId(route, PdfIdOf(query))
        h == HistoryEffectStart(key, <<>>, FALSE, "")
        p == PdfEffectStart(PdfIdOf(query), FALSE)
    IN  /\ mounted = TRUE
        /\ paramChatId = route
        /\ searchPdf = query
        /\ messages = h.msgs
        /\ isLoadingHistory = h.loading
        /\ historyError = h.error
        /\ histEffects = <<h.run>>
        /\ pdfUrl = ""
        /\ isLoadingPdf = p.loading
        /\ pdfEffects = <<p.run>>
        /\ liveUrls = {}
        /\ urlCount = 0
        /\ pdfToasts = 0
        /\ asks = <<>>
        /\ now = 0
        /\ navCount = 0

Init == \E loc \in Locations : InitAt(loc[1], loc[2])

\* The runs an effect can have: the first, one for each user navigation and
\* one for each migration.
MaxEffects == MaxUserEvents + 1

\* What the user does.
NextUser ==
    \/ \E loc \in Locations : Navigate(loc[1], loc[2])
    \/ Unmount
    \/ \E input \in Inputs : Send(input)

\* The ask_question calls complete.
NextAsk ==
    \/ \E q \in 1..MaxUserEvents, answer \in Answers : AskPrimaryOk(q, answer)
    \/ \E q \in 1..MaxUserEvents, err \in AskErrors : AskPrimaryFail(q, err)
    \/ \E q \in 1..MaxUserEvents, answer \in Answers : AskFallbackOk(q, answer)
    \/ \E q \in 1..MaxUserEvents, err \in AskErrors : AskFallbackFail(q, err)

\* The chat_history calls complete.
NextHistory ==
    \/ \E i \in 1..MaxEffects, interactions \in HistoryResponses :
           HistoryResolveOk(i, interactions)
    \/ \E i \in 1..MaxEffects, err \in HistoryErrors :
           HistoryResolveFail(i, err)

\* The get_pdf calls complete.
NextPdf ==
    \/ \E i \in 1..MaxEffects : PdfResolveOk(i)
    \/ \E i \in 1..MaxEffects, err \in PdfErrors : PdfResolveFail(i, err)

Next == NextUser \/ NextAsk \/ NextHistory \/ NextPdf

Spec == Init /\ [][Next]_vars

\* The conversation alone: no get_pdf call completes.  The steps left out
\* change pdfUrl, isLoadingPdf, pdfEffects, liveUrls, urlCount and pdfToasts
\* only, which no other step reads except to maintain them.
NextSession == NextUser \/ NextAsk \/ NextHistory

SpecSession == Init /\ [][NextSession]_vars

\* The questions alone: the user navigates, sends and leaves, and every
\* ask_question call that is in flight completes at some time, with a result
\* or with an error; no chat_history and no get_pdf call completes.
NextQuestions == NextUser \/ NextAsk

SpecQuestionsFair == Init /\ [][NextQuestions]_vars /\ WF_vars(NextAsk)

\* The document alone: no chat_history call completes.  The steps left out
\* change messages, isLoadingHistory, historyError and histEffects only.
NextDocument == NextUser \/ NextAsk \/ NextPdf

SpecDocument == Init /\ [][NextDocument]_vars

\* Identifier resolution alone: the page opened at, and then taken to, any
\* combination of the inputs, with no network call completing.
InitResolve ==
    \E route \in RouteInputs, query \in QueryInputs : InitAt(route, query)

NextResolve ==
    \E route \in RouteInputs, query \in QueryInputs : Navigate(route, query)

SpecResolve == InitResolve /\ [][NextResolve]_vars

\* Question dispatch alone, for the page opened at any combination of the
\* identifier inputs: the user sends questions and leaves, the ask_question
\* calls complete.
NextDispatch ==
    \/ \E input \in Inputs : Send(input)
    \/ Unmount
    \/ NextAsk

SpecDispatch == InitResolve /\ [][NextDispatch]_vars

\* The same with the clock running.
NextClock == Next \/ Tick

SpecClock == Init /\ [][NextClock]_vars

\* The conversation alone, with the clock running.
NextSessionClock == NextSession \/ Tick

SpecSessionClock == Init /\ [][NextSessionClock]_vars

-----------------------------------------------------------------------------
(* The Chat page of src/src/pages/Chat.tsx (lines 28-430), the component    *)
(* that reads its one identifier from the route parameter.  The variables   *)
(* are those of the page above: paramChatId holds the route parameter of    *)
(* the location, which this component reads as useParams().pdfId, and       *)
(* searchPdf the pdf query parameter, which it does not read.  Its effects  *)
(* and its unmount are modelled; asks stays empty.                          *)

\* The pdfId used when the route has no pdfId parameter (Chat.tsx:29).
DefaultPdfId == "e6401bc3-497a-40e8-96be-d28722913b99"

\* const pdfId = useParams<{ pdfId: string }>().pdfId ?? DefaultPdfId;
LegacyPdfId(routeParam) ==
    IF routeParam = Undefined THEN DefaultPdfId ELSE routeParam

\* The locations the page is opened at and taken to.
LegacyLocations ==
    { <<Undefined, "d1">>, <<"chat_s1", "d1">>, <<"chat_s1", "d2">>,
      <<"d1", "d1">>, <<"d2", Undefined>> }

\* The message shown when the history load failed (Chat.tsx:126-133).
LegacyHistoryFailedWelcome ==
    Message("welcome", "assistant",
            "Hello! I'm ready to help you understand this PDF. Ask me any questions about the content, and I'll provide detailed explanations.",
            "Just now")

\* The history effect up to its await (Chat.tsx:97-104), with the pdfId of
\* the render.
LegacyHistoryEffectStart(docKey, loading, error) ==
    IF ~Truthy(docKey)
    THEN [loading |-> loading, error |-> error,
          run |-> [key |-> docKey, isMounted |-> TRUE, status |-> "skipped",
                   data |-> <<>>]]
    ELSE [loading |-> TRUE, error |-> "",
          run |-> [key |-> docKey, isMounted |-> TRUE, status |-> "pending",
                   data |-> <<>>]]

\* getChatHistory resolved for run i (Chat.tsx:104-121, 134-136).
LegacyHistoryResolveOk(i, interactions) ==
    /\ i \in 1..Len(histEffects)
    /\ histEffects[i].status = "pending"
    /\ IF HistoryStale(histEffects[i])
       THEN /\ histEffects' = [histEffects EXCEPT ![i].status = "discarded"]
            /\ UNCHANGED <<messages, isLoadingHistory>>
       ELSE /\ histEffects' = [histEffects EXCEPT ![i].status = "loaded",
                                                  ![i].data = interactions]
            /\ messages' = HistoryMessages(interactions, 0)
            /\ isLoadingHistory' = FALSE
    /\ UNCHANGED <<mounted, paramChatId, searchPdf, historyError, pdfUrl,
                   isLoadingPdf, pdfEffects, liveUrls, urlCount, pdfToasts,
                   asks, now, navCount>>

\* getChatHistory rejected for run i (Chat.tsx:122-136).
LegacyHistoryResolveFail(i, err) ==
    /\ i \in 1..Len(histEffects)
    /\ histEffects[i].status = "pending"
    /\ IF HistoryStale(histEffects[i])
       THEN /\ histEffects' = [histEffects EXCEPT ![i].status = "discarded"]
            /\ UNCHANGED <<messages, isLoadingHistory, historyError>>
       ELSE /\ histEffects' = [histEffects EXCEPT ![i].status = "failed"]
            /\ historyError' = OrElse(err, "Failed to load chat history")
            /\ messages' = <<LegacyHistoryFailedWelcome>>
            /\ isLoadingHistory' = FALSE
    /\ UNCHANGED <<mounted, paramChatId, searchPdf, pdfUrl, isLoadingPdf,
                   pdfEffects, liveUrls, urlCount, pdfToasts, asks, now,
                   navCount>>

\* The PDF effect up to its await (Chat.tsx:144-151), with the pdfId of the
\* render.  The cleanup of the run reads the pdfUrl of the same render (url):
\* the run records it as capturedUrl.
LegacyPdfEffectStart(docKey, loading, url) ==
    IF ~Truthy(docKey)
    THEN [loading |-> loading,
          run |-> [pdfId |-> docKey, isMounted |-> TRUE, capturedUrl |-> url,
                   status |-> "skipped"]]
    ELSE [loading |-> TRUE,
          run |-> [pdfId |-> docKey, isMounted |-> TRUE, capturedUrl |-> url,
                   status |-> "pending"]]

\* The cleanup of the PDF effect, on the object URLs (Chat.tsx:163-166):
\* if (pdfUrl) URL.revokeObjectURL(pdfUrl), with the pdfUrl the run captured.
LegacyPdfRevoke(runs, urls) ==
    IF Len(runs) > 0 /\ Last(runs).isMounted /\ Last(runs).capturedUrl # ""
    THEN urls \ {Last(runs).capturedUrl}
    ELSE urls

\* getPdf resolved for run i (Chat.tsx:151-154, 158-160).
LegacyPdfResolveOk(i) ==
    /\ i \in 1..Len(pdfEffects)
    /\ pdfEffects[i].status = "pending"
    /\ IF PdfStale(pdfEffects[i])
       THEN /\ pdfEffects' = [pdfEffects EXCEPT ![i].status = "discarded"]
            /\ UNCHANGED <<pdfUrl, isLoadingPdf, liveUrls, urlCount>>
       ELSE LET url == CreateObjectURL(urlCount + 1) IN
            /\ urlCount' = urlCount + 1
            /\ liveUrls' = liveUrls \cup {url}
            /\ pdfEffects' = [pdfEffects EXCEPT ![i].status = "installed"]
            /\ pdfUrl' = url
            /\ isLoadingPdf' = FALSE
    /\ UNCHANGED <<mounted, paramChatId, searchPdf, messages, isLoadingHistory,
                   historyError, histEffects, pdfToasts, asks, now, navCount>>

\* getPdf rejected for run i (Chat.tsx:155-160): logged, no toast.
LegacyPdfResolveFail(i, err) ==
    /\ i \in 1..Len(pdfEffects)
    /\ pdfEffects[i].status = "pending"
    /\ pdfEffects' = [pdfEffects EXCEPT ![i].status =
                          IF PdfStale(pdfEffects[i]) THEN "discarded"
                          ELSE "failed"]
    /\ isLoadingPdf' = IF PdfStale(pdfEffects[i]) THEN isLoadingPdf ELSE FALSE
    /\ UNCHANGED <<mounted, paramChatId, searchPdf, messages, isLoadingHistory,
                   historyError, pdfUrl, histEffects, liveUrls, urlCount,
                   pdfToasts, asks, now, navCount>>

\* The user opens another location while the page is shown: when the pdfId
\* changed, React cleans up and reruns both effects, whose dependency it is.
LegacyNavigate(route, query) ==
    /\ mounted
    /\ navCount < MaxUserEvents
    /\ <<route, query>> # <<paramChatId, searchPdf>>
    /\ navCount' = navCount + 1
    /\ paramChatId' = route
    /\ searchPdf' = query
    /\ LET newPdfId == LegacyPdfId(route)
           h == LegacyHistoryEffectStart(newPdfId, isLoadingHistory, historyError)
           p == LegacyPdfEffectStart(newPdfId, isLoadingPdf, pdfUrl)
       IN  IF newPdfId # LegacyPdfId(paramChatId)
           THEN /\ histEffects' = Append(HistoryCleanup(histEffects), h.run)
                /\ isLoadingHistory' = h.loading
                /\ historyError' = h.error
                /\ pdfEffects' = Append(PdfCleanup(pdfEffects), p.run)
                /\ liveUrls' = LegacyPdfRevoke(pdfEffects, liveUrls)
                /\ isLoadingPdf' = p.loading
           ELSE UNCHANGED <<histEffects, isLoadingHistory, historyError,
                            pdfEffects, liveUrls, isLoadingPdf>>
    /\ UNCHANGED <<mounted, messages, pdfUrl, urlCount, pdfToasts, asks, now>>

\* The user leaves the page: both effects are cleaned up.
LegacyUnmount ==
    /\ mounted
    /\ mounted' = FALSE
    /\ histEffects' = HistoryCleanup(histEffects)
    /\ pdfEffects' = PdfCleanup(pdfEffects)
    /\ liveUrls' = LegacyPdfRevoke(pdfEffects, liveUrls)
    /\ UNCHANGED <<paramChatId, searchPdf, messages, isLoadingHistory,
                   historyError, pdfUrl, isLoadingPdf, urlCount, pdfToasts,
                   asks, now, navCount>>

\* The state after the first render and the first run of both effects.
LegacyInitAt(route, query) ==
    LET h == LegacyHistoryEffectStart(LegacyPdfId(route), FALSE, "")
        p == LegacyPdfEffectStart(LegacyPdfId(route), FALSE, "")
    IN  /\ mounted = TRUE
        /\ paramChatId = route
        /\ searchPdf = query
        /\ messages = <<>>
        /\ isLoadingHistory = h.loading
        /\ historyError = h.error
        /\ histEffects = <<h.run>>
        /\ pdfUrl = ""
        /\ isLoadingPdf = p.loading
        /\ pdfEffects = <<p.run>>
        /\ liveUrls = {}
        /\ urlCount = 0
        /\ pdfToasts = 0
        /\ asks = <<>>
        /\ now = 0
        /\ navCount = 0

LegacyInit == \E loc \in LegacyLocations : LegacyInitAt(loc[1], loc[2])

LegacyNext ==
    \/ \E loc \in LegacyLocations : LegacyNavigate(loc[1], loc[2])
    \/ LegacyUnmount
    \/ \E i \in 1..MaxEffects, interactions \in HistoryResponses :
           LegacyHistoryResolveOk(i, interactions)
    \/ \E i \in 1..MaxEffects, err \in HistoryErrors :
           LegacyHistoryResolveFail(i, err)
    \/ \E i \in 1..MaxEffects : LegacyPdfResolveOk(i)
    \/ \E i \in 1..MaxEffects, err \in PdfErrors : LegacyPdfResolveFail(i, err)

SpecLegacy == LegacyInit /\ [][LegacyNext]_vars

-----------------------------------------------------------------------------
(* Identifier resolution. *)

\* The route parameter is present and begins with the five characters of the
\* canonical prefix.
HasCanonicalPrefix(routeParam) ==
    /\ routeParam # Undefined
    /\ Len(routeParam) >= 5
    /\ \A i \in 1..5 : SubSeq(routeParam, i, i) = SubSeq("chat_", i, i)

\* The session key the history effect of the current render was started with.
ActiveSessionKey == Last(histEffects).key

\* C1: the session key is a function of the route parameter and the pdf query
\* parameter alone, with the stated priority: a route parameter that starts
\* with "chat_" is the session key verbatim, whatever the query parameter is;
\* otherwise a non-empty query parameter gives "chat_" + documentKey;
\* otherwise the session key is undefined.
C1_ResolutionPriority ==
    mounted =>
        IF HasCanonicalPrefix(paramChatId)
        THEN ActiveSessionKey = paramChatId
        ELSE IF searchPdf # Undefined /\ searchPdf # ""
        THEN ActiveSessionKey = "chat_" \o searchPdf
        ELSE ActiveSessionKey = Undefined

\* The page was taken to /chat/chat_abc?pdf=doc1 and its session key is the
\* route parameter.
C1_Witness ==
    /\ navCount = 1
    /\ paramChatId = "chat_abc"
    /\ searchPdf = "doc1"
    /\ ActiveSessionKey = "chat_abc"

-----------------------------------------------------------------------------
(* Question dispatch. *)

Finished(ask) == ask.stage \in {"nosession", "answered", "migrated", "failed"}

\* C2: a question sent while the session key is undefined makes no
\* ask_question call, ends with the missing-chat-id notification and nothing
\* else (no assistant message, no navigation), and the step that sends it
\* leaves the location, the display handle and both effects as they were.
C2_NoSessionNoCall ==
    /\ [](\A q \in 1..Len(asks) :
            ~Truthy(asks[q].chatId) =>
                /\ asks[q].calls = <<>>
                /\ asks[q].stage = "nosession"
                /\ asks[q].toast = MissingChatIdToast
                /\ asks[q].appended = <<>>
                /\ asks[q].navTo = NoNav)
    /\ [][(Len(asks') > Len(asks) /\ ~Truthy(effectiveChatId)) =>
            UNCHANGED <<paramChatId, searchPdf, pdfUrl, isLoadingPdf, liveUrls,
                        pdfEffects, histEffects>>]_vars

\* A question was sent at a location without a session key: it is in the
\* message log and has ended with the no-session outcome.
C2_Witness ==
    /\ Len(asks) = 1
    /\ asks[1].stage = "nosession"
    /\ effectiveChatId = Undefined
    /\ Last(messages).role = "user"

\* The question q takes the step from stage a to stage b.
Moves(q, a, b) ==
    /\ q \in 1..Len(asks)
    /\ asks[q].stage = a
    /\ asks'[q].stage = b

\* The alternate key of a question: "chat_" + the documentKey it was sent
\* with, when there is one.
AlternateKey(ask) == "chat_" \o ask.pdfId

\* C3: a question whose primary ask failed and whose ask against the
\* alternate key succeeded has made exactly these two calls, has appended
\* exactly one assistant message, the reply, and has fired one migration
\* whose target is the alternate key; the step that ends it adds exactly that
\* message to the end of the log of a mounted page and makes the alternate
\* key the route parameter.
C3_FallbackReplyAndMigration ==
    /\ [](\A q \in 1..Len(asks) :
            asks[q].stage = "migrated" =>
                /\ asks[q].calls = <<asks[q].chatId, AlternateKey(asks[q])>>
                /\ Len(asks[q].errors) = 1
                /\ Len(asks[q].appended) = 1
                /\ asks[q].appended[1].role = "assistant"
                /\ asks[q].appended[1].content \in
                       {OrElse(a, "(no answer)") : a \in Answers}
                /\ asks[q].toast = NoToast
                /\ asks[q].navTo = <<AlternateKey(asks[q]), asks[q].pdfId>>)
    /\ [][\A q \in 1..Len(asks) :
            Moves(q, "fallback", "migrated") =>
                /\ mounted => messages' = Append(messages, asks'[q].appended[1])
                /\ paramChatId' = AlternateKey(asks[q])]_vars

\* A question sent to chat_s1 with document d1 was answered by chat_d1, and
\* the page is at chat_d1.
C3_Witness ==
    \E q \in 1..Len(asks) :
        /\ asks[q].stage = "migrated"
        /\ asks[q].chatId = "chat_s1"
        /\ mounted
        /\ paramChatId = "chat_d1"
        /\ Last(messages) = asks[q].appended[1]

\* C4: a question whose primary ask failed and that had no alternate key, or
\* whose ask against the alternate key failed too, has appended exactly one
\* assistant message, the failure placeholder, has raised the server-error
\* notification with the last error, and has fired no migration; the step
\* that ends it adds exactly the placeholder to the log of a mounted page
\* and leaves the location as it was.
C4_FailurePlaceholder ==
    /\ [](\A q \in 1..Len(asks) :
            asks[q].stage = "failed" =>
                /\ Len(asks[q].appended) = 1
                /\ asks[q].appended[1].role = "assistant"
                /\ asks[q].appended[1].content = "Failed to get answer from server."
                /\ asks[q].toast.title = "Server error"
                /\ asks[q].toast.description = Last(asks[q].errors)
                /\ asks[q].navTo = NoNav)
    /\ [][\A q \in 1..Len(asks) :
            (Moves(q, "primary", "failed") \/ Moves(q, "fallback", "failed")) =>
                /\ mounted => messages' = Append(messages, asks'[q].appended[1])
                /\ UNCHANGED <<paramChatId, searchPdf, histEffects>>]_vars

\* A question failed on both keys: its placeholder ends the log and the page
\* is where the question was sent.
C4_Witness ==
    \E q \in 1..Len(asks) :
        /\ asks[q].stage = "failed"
        /\ Len(asks[q].calls) = 2
        /\ mounted
        /\ Last(messages) = asks[q].appended[1]
        /\ effectiveChatId = asks[q].chatId

\* C5: a question makes at most two ask_question calls, the first to the
\* chat id it was sent with; one that was answered by the first call made
\* one call; and a question that has ended (answered, migrated, failed, no
\* session) never changes again, so it makes no further call.
C5_AtMostTwoCalls ==
    /\ [](\A q \in 1..Len(asks) :
            /\ Len(asks[q].calls) <= 2
            /\ Len(asks[q].calls) >= 1 => asks[q].calls[1] = asks[q].chatId
            /\ asks[q].stage = "answered" => Len(asks[q].calls) = 1
            /\ asks[q].stage = "primary" => Len(asks[q].calls) = 1)
    /\ [][\A q \in 1..Len(asks) :
            Finished(asks[q]) => asks'[q] = asks[q]]_vars

\* A question failed after its second call, and a question sent later was
\* answered by its first.
C5_Witness ==
    /\ Len(asks) = 2
    /\ asks[1].stage = "failed"
    /\ Len(asks[1].calls) = 2
    /\ asks[2].stage = "answered"

\* C6: a question whose alternate key is undefined (no documentKey) or equal
\* to the chat id it was sent with never makes a second call, and when its
\* call fails it ends with the error of that call.
C6_NoFallbackWithoutAlternate ==
    \A q \in 1..Len(asks) :
        (/\ Truthy(asks[q].chatId)
         /\ \/ asks[q].pdfId = ""
            \/ AlternateKey(asks[q]) = asks[q].chatId)
        => /\ Len(asks[q].calls) = 1
           /\ asks[q].stage \in {"primary", "answered", "failed"}
           /\ asks[q].stage = "failed" =>
                  /\ Len(asks[q].errors) = 1
                  /\ asks[q].toast = Toast("Server error", asks[q].errors[1])

\* A question sent to chat_d2 with document d2 failed after one call.
C6_Witness ==
    \E q \in 1..Len(asks) :
        /\ asks[q].stage = "failed"
        /\ asks[q].pdfId # ""
        /\ AlternateKey(asks[q]) = asks[q].chatId

\* C7: a migration makes the alternate key the session key; the history
\* effect of a mounted page runs with the session key and every question is
\* sent with it; a question sent with the alternate key of its document
\* calls only that key and never navigates; and a migration for the document
\* of a page that is already at the alternate key changes neither key.
C7_MigrationOneWay ==
    /\ [](mounted => ActiveSessionKey = effectiveChatId)
    /\ [](\A q \in 1..Len(asks) :
            (asks[q].pdfId # "" /\ asks[q].chatId = AlternateKey(asks[q])) =>
                /\ asks[q].navTo = NoNav
                /\ \A c \in 1..Len(asks[q].calls) :
                       asks[q].calls[c] = AlternateKey(asks[q]))
    /\ [][Len(asks') > Len(asks) =>
            Last(asks').chatId = effectiveChatId]_vars
    /\ [][\A q \in 1..Len(asks) :
            Moves(q, "fallback", "migrated") =>
                /\ effectiveChatId' = AlternateKey(asks[q])
                /\ pdfId' = asks[q].pdfId
                /\ (effectiveChatId = AlternateKey(asks[q]) /\ pdfId = asks[q].pdfId)
                       => (effectiveChatId' = effectiveChatId /\ pdfId' = pdfId)]_vars

\* The first question migrated the page to chat_d1; the second was sent
\* there, failed, and the page is still at chat_d1.
C7_Witness ==
    /\ Len(asks) = 2
    /\ asks[1].stage = "migrated"
    /\ asks[2].chatId = asks[1].navTo[1]
    /\ asks[2].stage = "failed"
    /\ mounted
    /\ effectiveChatId = asks[1].navTo[1]
    /\ ActiveSessionKey = asks[1].navTo[1]

-----------------------------------------------------------------------------
(* Stale responses and display handles. *)

\* The chat_history call of run i of the history effect completes in this
\* step.
HistoryCompletes(i) ==
    /\ i \in 1..Len(histEffects)
    /\ histEffects[i].status = "pending"
    /\ histEffects'[i].status # "pending"

\* C8: when the chat_history call of a run of the history effect that has
\* been cleaned up (its session key was replaced, or the page was left)
\* completes, with a result or with an error, the message log, the recorded
\* history failure and the history loading flag stay as they are.
C8_StaleHistorySuppressed ==
    [][\A i \in 1..Len(histEffects) :
        (HistoryCompletes(i) /\ ~histEffects[i].isMounted) =>
            UNCHANGED <<messages, isLoadingHistory, historyError>>]_vars

\* The page went from one session key to another while the history of the
\* first was loading; that call has completed since, and the history of the
\* second is shown.
C8_Witness ==
    /\ mounted
    /\ Len(histEffects) = 2
    /\ histEffects[1].status = "discarded"
    /\ histEffects[1].key # histEffects[2].key
    /\ Truthy(histEffects[1].key)
    /\ histEffects[2].status = "loaded"
    /\ ~isLoadingHistory

\* C9: at most one object URL is created and not yet revoked.
C9_AtMostOneLiveHandle == Cardinality(liveUrls) <= 1

\* A second object URL was created, for another document, and it is the only
\* live one.
C9_Witness ==
    /\ urlCount = 2
    /\ liveUrls = {pdfUrl}
    /\ Len(pdfEffects) >= 2

\* C10: once the page is unmounted no object URL is live, whatever completes
\* afterwards.
C10_NoHandleAfterUnmount == ~mounted => liveUrls = {}

\* The page showed a document, went to another one and was left while that
\* one was loading; the get_pdf call has completed since.
C10_Witness ==
    /\ ~mounted
    /\ urlCount = 1
    /\ Last(pdfEffects).status = "discarded"

\* The get_pdf call of run i of the PDF effect completes in this step.
PdfCompletes(i) ==
    /\ i \in 1..Len(pdfEffects)
    /\ pdfEffects[i].status = "pending"
    /\ pdfEffects'[i].status # "pending"

\* C11: the object URL of a run of the PDF effect that has been replaced by
\* a run for another documentKey is not live any more; an object URL is
\* created only while none is live, by the latest run, for the documentKey
\* of the page, and it is the one installed; and the get_pdf call of a
\* replaced run, when it completes, creates no object URL and installs none.
C11_ReleaseBeforeReplace ==
    /\ [](\A i \in 1..Len(pdfEffects) :
            i < Len(pdfEffects) => pdfEffects[i].currentUrl \notin liveUrls)
    /\ [][urlCount' # urlCount =>
            /\ liveUrls = {}
            /\ liveUrls' = {Last(pdfEffects').currentUrl}
            /\ pdfUrl' = Last(pdfEffects').currentUrl
            /\ Last(pdfEffects').pdfId = pdfId']_vars
    /\ [][\A i \in 1..Len(pdfEffects) :
            (PdfCompletes(i) /\ i < Len(pdfEffects)) =>
                UNCHANGED <<liveUrls, urlCount, pdfUrl>>]_vars

\* The page showed a document, went to a second one and on to a third
\* location while the second was loading; the call for the second completed
\* afterwards, and the only live object URL is the one of the latest run.
C11_Witness ==
    /\ Len(pdfEffects) = 3
    /\ pdfEffects[1].status = "installed"
    /\ pdfEffects[2].status = "discarded"
    /\ pdfEffects[3].status = "installed"
    /\ pdfEffects[1].currentUrl # pdfEffects[3].currentUrl
    /\ liveUrls = {pdfEffects[3].currentUrl}

-----------------------------------------------------------------------------
(* The message log. *)

\* m is the user message handleSend appended for the question ask.
SentBy(ask, m) ==
    /\ m.role = "user"
    /\ m.timestamp = "Just now"
    /\ m.content = ask.content

\* The user message of the question ask is in the log msgs.
InLog(ask, msgs) == \E k \in 1..Len(msgs) : SentBy(ask, msgs[k])

\* C12: when a chat_history call completes, the user message of every
\* question sent during the current run of the history effect (that is, since
\* the session key last changed) that was in the message log is still in it.
C12_NoReseedAfterSend ==
    [][\A i \in 1..Len(histEffects) : \A q \in 1..Len(asks) :
        (/\ HistoryCompletes(i)
         /\ mounted
         /\ asks[q].run = Len(histEffects)
         /\ InLog(asks[q], messages))
        => InLog(asks[q], messages')]_vars

\* No ask_question call of the question has completed and no assistant
\* message has been appended for it.
Pending(ask) ==
    /\ ask.errors = <<>>
    /\ ask.appended = <<>>
    /\ ask.stage \notin {"answered", "migrated", "failed", "fallback"}

\* C13: the step in which a question is sent adds exactly one message to the
\* end of the message log, the user message with the text sent, and leaves
\* the question pending: none of its ask_question calls has completed and no
\* assistant message answers it yet.
C13_OptimisticAppend ==
    [][Len(asks') > Len(asks) =>
        /\ Len(asks') = Len(asks) + 1
        /\ Trim(Last(asks').content) # ""
        /\ Len(messages') = Len(messages) + 1
        /\ SubSeq(messages', 1, Len(messages)) = messages
        /\ SentBy(Last(asks'), Last(messages'))
        /\ Pending(Last(asks'))]_vars

\* A question was sent after the history of the session was loaded: its user
\* message ends the log, after the history, and its call is in flight.
C13_Witness ==
    /\ Len(asks) = 1
    /\ asks[1].stage = "primary"
    /\ Pending(asks[1])
    /\ histEffects[1].status = "loaded"
    /\ Len(messages) = 5
    /\ SentBy(asks[1], Last(messages))

\* The ids made from the clock: Date.now() and Date.now() + 1 .. + 5, as
\* numbers.
ClockIds == 0..(MaxTicks + 5)

IsClockId(id) == \E n \in ClockIds : NumToString(n) = id

IdValue(id) == CHOOSE n \in ClockIds : NumToString(n) = id

\* C14: the messages of the log have pairwise distinct ids, and the id of a
\* user message, when it is appended, is greater than every id made from the
\* clock that is in the log or was given to a reply or placeholder before.
C14_CollisionFreeIds ==
    /\ [](\A i, j \in 1..Len(messages) :
            i # j => messages[i].id # messages[j].id)
    /\ [][Len(asks') > Len(asks) =>
            /\ \A k \in 1..Len(messages) :
                   IsClockId(messages[k].id) =>
                       IdValue(Last(messages').id) > IdValue(messages[k].id)
            /\ \A q \in 1..Len(asks) : \A k \in 1..Len(asks[q].appended) :
                   IdValue(Last(messages').id) > IdValue(asks[q].appended[k].id)
       ]_vars

-----------------------------------------------------------------------------
(* History loads. *)

\* A run of the history effect starts in this step.
HistoryStarts == Len(histEffects') > Len(histEffects)

\* C15: a run of the history effect whose session key is undefined never has
\* a chat_history call in flight or completed, and the step that starts it
\* (the first render included) leaves the message log equal to the one
\* assistant message of the no-chat welcome.
C15_NoKeyNoCall ==
    /\ [](\A i \in 1..Len(histEffects) :
            ~Truthy(histEffects[i].key) => histEffects[i].status = "skipped")
    /\ []((Len(histEffects) = 1 /\ ~Truthy(histEffects[1].key) /\ asks = <<>>)
            => messages = <<NoChatWelcome>>)
    /\ [][(HistoryStarts /\ ~Truthy(Last(histEffects').key)) =>
            /\ Len(messages') = 1
            /\ messages'[1].role = "assistant"
            /\ messages'[1] = NoChatWelcome]_vars

\* The page went from a chat to the location without chat id and document:
\* the log is the welcome message and no call was made for that run.
C15_Witness ==
    /\ Len(histEffects) = 2
    /\ Truthy(histEffects[1].key)
    /\ histEffects[2].key = Undefined
    /\ histEffects[2].status = "skipped"
    /\ messages = <<NoChatWelcome>>

\* C16: the step in which the chat_history call of the current run of the
\* history effect fails leaves the log equal to one assistant message,
\* records the message of the error, and ends the loading state; and a
\* question sent while the latest history load has failed makes its first
\* ask_question call with the session key of that load.
C16_HistoryFailureUsable ==
    /\ [][\A i \in 1..Len(histEffects) :
            (HistoryCompletes(i) /\ histEffects'[i].status = "failed") =>
                /\ Len(messages') = 1
                /\ messages'[1].role = "assistant"
                /\ historyError' \in HistoryErrors
                /\ isLoadingHistory' = FALSE]_vars
    /\ [][(Len(asks') > Len(asks) /\ Last(histEffects).status = "failed") =>
            /\ Last(asks').stage = "primary"
            /\ Last(asks').calls = <<Last(histEffects).key>>
            /\ UNCHANGED <<historyError, isLoadingHistory, histEffects>>]_vars

\* The history load of the session failed, and a question sent afterwards is
\* in flight against the same session key, after the one assistant message.
C16_Witness ==
    /\ Len(histEffects) = 1
    /\ histEffects[1].status = "failed"
    /\ historyError = "Failed to fetch chat history"
    /\ ~isLoadingHistory
    /\ Len(asks) = 1
    /\ asks[1].stage = "primary"
    /\ asks[1].calls = <<histEffects[1].key>>
    /\ Len(messages) = 2
    /\ messages[1] = HistoryFailedWelcome
    /\ SentBy(asks[1], messages[2])

\* The chat_history call of run i completes in this step and its result is
\* applied.
HistoryLoads(i) == HistoryCompletes(i) /\ histEffects'[i].status = "loaded"

\* C17: the step that applies a chat_history result without interactions
\* leaves the log equal to one assistant message whose text is not the text
\* shown after a failed load, with no history failure recorded and the
\* loading state ended; the step of a failed load records a failure.
C17_EmptyHistoryDistinct ==
    /\ [][\A i \in 1..Len(histEffects) :
            (HistoryLoads(i) /\ histEffects'[i].data = <<>>) =>
                /\ Len(messages') = 1
                /\ messages'[1].role = "assistant"
                /\ messages'[1].content # HistoryFailedWelcome.content
                /\ historyError' = ""
                /\ isLoadingHistory' = FALSE]_vars
    /\ [][\A i \in 1..Len(histEffects) :
            (HistoryCompletes(i) /\ histEffects'[i].status = "failed") =>
                /\ messages'[1].content = HistoryFailedWelcome.content
                /\ historyError' # ""]_vars

\* The page went to a second session after the history load of the first had
\* failed, and the history of the second came back without interactions.
C17_Witness ==
    /\ Len(histEffects) = 2
    /\ histEffects[1].status = "failed"
    /\ histEffects[2].status = "loaded"
    /\ histEffects[2].data = <<>>
    /\ messages = <<EmptyHistoryWelcome>>
    /\ historyError = ""
    /\ ~isLoadingHistory

\* C18: the step that applies a chat_history result of n >= 1 interactions
\* leaves a log of exactly 2n messages: for the k-th interaction, in the
\* order of the response, a user message with its question followed by an
\* assistant message with its answer.
C18_HistoryExpansion ==
    [][\A i \in 1..Len(histEffects) :
        (HistoryLoads(i) /\ histEffects'[i].data # <<>>) =>
            LET data == histEffects'[i].data IN
            /\ Len(messages') = 2 * Len(data)
            /\ \A k \in 1..Len(data) :
                   /\ messages'[2 * k - 1].role = "user"
                   /\ messages'[2 * k - 1].content = data[k].question
                   /\ messages'[2 * k].role = "assistant"
                   /\ messages'[2 * k].content = data[k].answer]_vars

\* A history of two interactions is shown: four messages, no failure.
C18_Witness ==
    /\ Last(histEffects).status = "loaded"
    /\ Len(Last(histEffects).data) = 2
    /\ Len(messages) = 4
    /\ messages[3].content = Last(histEffects).data[2].question
    /\ messages[4].content = Last(histEffects).data[2].answer
    /\ ~isLoadingHistory

-----------------------------------------------------------------------------
(* The document key. *)

\* The documentKey of the page: the key the current run of the PDF effect
\* was started with, which is the one it sends to get_pdf.
DocumentKey == Last(pdfEffects).pdfId

\* C19: the documentKey of a mounted page is the pdf query parameter (empty
\* when there is none); a step that leaves the query parameter as it is
\* leaves the documentKey as it is, whatever it does to the route parameter;
\* and a documentKey sent to get_pdf is not the route parameter, unless the
\* query parameter has that very value.
C19_DocumentKeyFromQuery ==
    /\ [](mounted => DocumentKey = PdfIdOf(searchPdf))
    /\ [][(mounted' /\ searchPdf' = searchPdf) => DocumentKey' = DocumentKey]_vars
    /\ []((mounted /\ Last(pdfEffects).status # "skipped"
                   /\ paramChatId # searchPdf)
            => DocumentKey # paramChatId)

-----------------------------------------------------------------------------
(* Route parameters without the canonical prefix. *)

\* The route supplies a session key that does not start with "chat_".
NonCanonicalRoute == Truthy(paramChatId) /\ ~HasCanonicalPrefix(paramChatId)

\* C20 as stated: a route parameter that does not start with "chat_" is the
\* session key of the history load and the chat id of the first ask_question
\* call of a question sent there.
C20_ServerIssuedPassThrough ==
    /\ []((mounted /\ NonCanonicalRoute) => ActiveSessionKey = paramChatId)
    /\ [][(Len(asks') > Len(asks) /\ NonCanonicalRoute) =>
            Last(asks').calls = <<paramChatId>>]_vars

\* C20 as amended: a route parameter that does not start with "chat_" is
\* not used as the session key: the history load and the question dispatch
\* use "chat_" + documentKey when the pdf query parameter is present, and
\* there is no session key (no history call, no ask_question call) when it
\* is not.
C20_NonCanonicalRouteIgnored ==
    /\ []((mounted /\ NonCanonicalRoute) =>
            /\ ActiveSessionKey # paramChatId
            /\ ActiveSessionKey =
                 (IF Truthy(searchPdf) THEN "chat_" \o searchPdf ELSE Undefined)
            /\ ~Truthy(searchPdf) => Last(histEffects).status = "skipped")
    /\ [][(Len(asks') > Len(asks) /\ NonCanonicalRoute) =>
            IF Truthy(searchPdf)
            THEN Last(asks').calls = <<"chat_" \o searchPdf>>
            ELSE Last(asks').calls = <<>> /\ Last(asks').stage = "nosession"]_vars

\* At /chat/abc?pdf=doc1 a question was sent to chat_doc1 and answered, and
\* the history effect runs with chat_doc1.
C20_Witness ==
    /\ mounted
    /\ paramChatId = "abc"
    /\ searchPdf = "doc1"
    /\ ActiveSessionKey = "chat_doc1"
    /\ Len(asks) >= 1
    /\ asks[1].calls = <<"chat_doc1">>
    /\ asks[1].stage = "answered"

-----------------------------------------------------------------------------
(* Every question is answered. *)

\* C21 as stated: a question that has ended has appended exactly one
\* assistant message.
C21_EveryQuestionAnswered ==
    \A q \in 1..Len(asks) :
        Finished(asks[q]) =>
            /\ Len(asks[q].appended) = 1
            /\ asks[q].appended[1].role = "assistant"

\* C21 as amended: a question sent with a session key ends, when its calls
\* complete, and has then appended exactly one assistant message, the reply
\* or the failure placeholder, which the step that ends it adds to the end of
\* the log of a mounted page; a question sent without a session key ends with
\* the missing-chat-id notification and no assistant message.
C21_AnsweredOrNotified ==
    /\ [](\A q \in 1..Len(asks) :
            Finished(asks[q]) =>
                IF Truthy(asks[q].chatId)
                THEN /\ Len(asks[q].appended) = 1
                     /\ asks[q].appended[1].role = "assistant"
                ELSE /\ asks[q].appended = <<>>
                     /\ asks[q].toast = MissingChatIdToast)
    /\ [][\A q \in 1..Len(asks) :
            (~Finished(asks[q]) /\ Finished(asks'[q]) /\ mounted) =>
                messages' = Append(messages, asks'[q].appended[1])]_vars
    /\ \A q \in 1..MaxUserEvents :
           [](q <= Len(asks) => <>(q <= Len(asks) /\ Finished(asks[q])))

\* A question was answered after the user had gone to another session: the
\* log ends with its user message and the reply.
C21_Witness ==
    /\ mounted
    /\ Len(asks) = 1
    /\ asks[1].stage = "answered"
    /\ navCount = 1
    /\ asks[1].chatId # effectiveChatId
    /\ Len(messages) >= 2
    /\ SentBy(asks[1], messages[Len(messages) - 1])
    /\ Last(messages) = asks[1].appended[1]

-----------------------------------------------------------------------------
(* The documented flow of identifiers. *)

\* The page is at /chat/{chatId}?pdf={pdfId} with a chatId that starts with
\* "chat_" and a pdfId.
CanonicalLocation == HasCanonicalPrefix(paramChatId) /\ Truthy(searchPdf)

\* C22: at such a location the chat_history call of the page is made with
\* the chatId and its get_pdf call with the pdfId, neither with the other
\* identifier, and the first ask_question call of a question sent there is
\* made with the chatId.
C22_KeysKeptApart ==
    /\ []((mounted /\ CanonicalLocation) =>
            /\ Last(histEffects).status # "skipped"
            /\ Last(histEffects).key = paramChatId
            /\ Last(pdfEffects).status # "skipped"
            /\ Last(pdfEffects).pdfId = searchPdf
            /\ paramChatId # searchPdf =>
                   /\ Last(histEffects).key # searchPdf
                   /\ Last(pdfEffects).pdfId # paramChatId)
    /\ [][(Len(asks') > Len(asks) /\ CanonicalLocation) =>
            /\ Last(asks').calls = <<paramChatId>>
            /\ paramChatId # searchPdf => Last(asks').calls # <<searchPdf>>]_vars

\* At /chat/chat_abc?pdf=doc1 the history was asked for chat_abc, the
\* document for doc1, and a question sent to chat_abc was answered.
C22_Witness ==
    /\ paramChatId = "chat_abc"
    /\ searchPdf = "doc1"
    /\ Last(histEffects).key = "chat_abc"
    /\ Last(pdfEffects).pdfId = "doc1"
    /\ Len(asks) = 1
    /\ asks[1].calls = <<"chat_abc">>
    /\ asks[1].stage = "answered"

-----------------------------------------------------------------------------
(* The document load. *)

\* C23: the step in which the get_pdf call of the current run of the PDF
\* effect fails creates no object URL, raises one notification, ends the
\* document loading state, and leaves the message log, the questions and
\* everything a send reads (the page, its location) as they are.
C23_PdfFailureNonFatal ==
    [][\A i \in 1..Len(pdfEffects) :
        (/\ PdfCompletes(i)
         /\ pdfEffects'[i].status = "failed"
         /\ pdfEffects[i].isMounted)
        => /\ urlCount' = urlCount
           /\ liveUrls' = liveUrls
           /\ pdfToasts' = pdfToasts + 1
           /\ isLoadingPdf' = FALSE
           /\ UNCHANGED <<messages, asks, mounted, paramChatId, searchPdf,
                          navCount, histEffects, isLoadingHistory,
                          historyError>>]_vars

\* The document load of the page failed, and a question sent afterwards was
\* answered.
C23_Witness ==
    /\ mounted
    /\ Len(pdfEffects) = 1
    /\ pdfEffects[1].status = "failed"
    /\ pdfToasts = 1
    /\ ~isLoadingPdf
    /\ liveUrls = {}
    /\ Len(asks) = 1
    /\ asks[1].stage = "answered"
    /\ Last(messages) = asks[1].appended[1]

-----------------------------------------------------------------------------
(* Appending to the log. *)

\* C24: a step in which a question of the mounted page appends an assistant
\* message (the reply or the placeholder) leaves the log as the log before
\* with exactly that message added at its end.
C24_AppendIsNetAddition ==
    [][\A q \in 1..Len(asks) :
        (/\ mounted
         /\ Len(asks') = Len(asks)
         /\ Len(asks'[q].appended) > Len(asks[q].appended))
        => /\ Len(asks'[q].appended) = Len(asks[q].appended) + 1
           /\ messages' = Append(messages, Last(asks'[q].appended))]_vars

\* The history was loaded, a first question was answered and a second one
\* failed: the log ends in the two questions' messages, in their order.
C24_Witness ==
    /\ mounted
    /\ Len(asks) = 2
    /\ asks[1].stage = "answered"
    /\ asks[2].stage = "failed"
    /\ Len(messages) >= 6
    /\ Last(messages) = asks[2].appended[1]
    /\ \E k \in 1..Len(messages) : messages[k] = asks[1].appended[1]
    /\ Last(histEffects).status = "loaded"

-----------------------------------------------------------------------------
(* The two loads side by side. *)

\* C25: a step of the history load alone (a run of the history effect starts
\* or its chat_history call completes, while no run of the PDF effect starts
\* or completes) leaves the object URL shown, the document loading flag, the
\* live object URLs and the document notifications unchanged; a step of the
\* document load alone (the same for the PDF effect, in a step that is not
\* the completion of a question) leaves the message log, the history
\* failure reason and the history loading flag unchanged.
C25_LoadsDisjoint ==
    [][/\ (histEffects' # histEffects /\ pdfEffects' = pdfEffects)
          => UNCHANGED <<pdfUrl, isLoadingPdf, liveUrls, urlCount, pdfToasts>>
       /\ (pdfEffects' # pdfEffects /\ histEffects' = histEffects
                                   /\ asks' = asks)
          => UNCHANGED <<messages, historyError, isLoadingHistory>>]_vars

\* Both calls were in flight at the same time and both completed: the
\* history failed while the document was installed.
C25_Witness ==
    /\ mounted
    /\ Len(histEffects) = 1
    /\ Len(pdfEffects) = 1
    /\ histEffects[1].status = "failed"
    /\ pdfEffects[1].status = "installed"
    /\ messages = <<HistoryFailedWelcome>>
    /\ pdfUrl \in liveUrls
    /\ ~isLoadingPdf
    /\ ~isLoadingHistory

-----------------------------------------------------------------------------
(* The history loading flag. *)

\* C26: on the mounted page isLoadingHistory is true only while the
\* chat_history call of the current run of the history effect, the run of
\* the active session key, is in flight; in every state where that run has
\* no call pending the flag is false.
C26_LoadingOnlyWhilePending ==
    (mounted /\ isLoadingHistory)
    => /\ Last(histEffects).status = "pending"
       /\ Last(histEffects).key = effectiveChatId

-----------------------------------------------------------------------------
(* The object URL on display. *)

\* C27: whenever the viewer of the mounted page shows an object URL
\* (isLoadingPdf is false and pdfUrl is not empty), that URL has not been
\* revoked and is the one the current run of the PDF effect, the run of the
\* active pdfId, created.
C27_ShownUrlLiveAndCurrent ==
    (mounted /\ ~isLoadingPdf /\ pdfUrl # "")
    => /\ pdfUrl \in liveUrls
       /\ Last(pdfEffects).pdfId = pdfId
       /\ Last(pdfEffects).currentUrl = pdfUrl

-----------------------------------------------------------------------------
(* Replies and the active session. *)

\* C28: a step that appends the assistant message (reply or placeholder) of
\* a question to the log of the mounted page is taken while the session key
\* the question was sent under is the active one.
C28_NoReplyAcrossSessions ==
    [][\A q \in 1..Len(asks) :
        (/\ mounted
         /\ Len(asks') = Len(asks)
         /\ Len(asks'[q].appended) > Len(asks[q].appended))
        => effectiveChatId = asks[q].chatId]_vars

-----------------------------------------------------------------------------
(* Migration and the active location. *)

\* C29: the step in which the fallback ask of a question succeeds changes
\* the location only if the page is still mounted with the session key and
\* the pdfId the question was sent under; after the user moved to another
\* session or document, or left the page, it leaves the location (and so the
\* active session key) as it is.
C29_MigrationOnlyWhileActive ==
    [][\A q \in 1..Len(asks) :
        (/\ Moves(q, "fallback", "migrated")
         /\ \/ ~mounted
            \/ effectiveChatId # asks[q].chatId
            \/ pdfId # asks[q].pdfId)
        => UNCHANGED <<paramChatId, searchPdf>>]_vars

-----------------------------------------------------------------------------
(* The object URLs of the legacy Chat component (src/src/pages/Chat.tsx). *)

\* C30: in the legacy component every object URL a document load created is
\* revoked by the next change of the document key or by the unmount: a live
\* object URL is the one the current run of the PDF effect installed, so at
\* most one is live at any instant, and none is live once the page is left.
C30_LegacyHandlesReleased ==
    /\ liveUrls # {} => /\ mounted
                        /\ liveUrls = {pdfUrl}
                        /\ Last(pdfEffects).status = "installed"
    /\ Cardinality(liveUrls) < 2

====
